---- MODULE Spec2Model ----
(***************************************************************************)
(* The assessment request pipeline of main.py (PandaFreeAI Engine):        *)
(* assess_audio with its helpers get_embedding, analyze_audio_transcript   *)
(* and safe_qdrant_search, run by concurrent requests that share one       *)
(* temporary directory, one index client and one index.                    *)
(*                                                                         *)
(* Every request owns the local variables of assess_audio; a step of the   *)
(* model is one statement group of the handler (one external call at       *)
(* most).  The external services (remote fetch, transcription, chat,       *)
(* embedding, index search) answer by a choice among the outcomes they can *)
(* produce; every call and its answer is recorded in the request's call    *)
(* log.                                                                    *)
(***************************************************************************)
EXTENDS FiniteSets, Integers, Sequences, TLC

\* ------------------------------------------------------------------ bounds
MaxLen == 1        \* longest audio payload, in bytes
NumNames == 2      \* names the temporary directory can hand out
MaxPoints == 4     \* most points the index holds at the start
MaxRequests == 2   \* add_teacher requests followed

\* ------------------------------------------------------- program constants
DefaultLimit == 3  \* safe_qdrant_search(query_vector, limit=3)
StatusCode == 500  \* HTTPException(status_code=500, ...)

COLLECTION_NAME == "teachers_skills"

\* ---------------------------------------------------------------- requests
Reqs == {"r1", "r2"}

TempNames == 1..NumNames
NoPath == 0

ByteVals == {7}
Payloads == UNION {[1..n -> ByteVals] : n \in 0..MaxLen}

Urls == {"http://host/a.mp3"}

\* file: Union[UploadFile, str]
NoInput == [isstr |-> FALSE, url |-> "", data |-> <<>>, given |-> FALSE]
UploadFile(p) == [isstr |-> FALSE, url |-> "", data |-> p, given |-> TRUE]
StrInput(u) == [isstr |-> TRUE, url |-> u, data |-> <<>>, given |-> TRUE]
Inputs == {UploadFile(p) : p \in Payloads} \cup {StrInput(u) : u \in Urls}

\* ------------------------------------------------------------- file system
NoFile == [exists |-> FALSE, data |-> <<>>]
FileOf(p) == [exists |-> TRUE, data |-> p]

\* --------------------------------------------------------------- exceptions
NoExc == [type |-> "", msg |-> ""]
Exc(t, m) == [type |-> t, msg |-> m]

URLError == Exc("URLError", "<urlopen error>")
FileNotFoundError == Exc("FileNotFoundError", "No such file or directory")
APIConnectionError == Exc("APIConnectionError", "Connection error.")
JSONDecodeError == Exc("JSONDecodeError", "Expecting value")
KeyError(k) == Exc("KeyError", k)
AttributeError(a) == Exc("AttributeError", a)
ResponseError == Exc("UnexpectedResponse", "Unexpected Response")

\* outcome of a call: a value, or a raised exception (d: the empty value of
\* the call's result type)
Ok(v) == [ok |-> TRUE, val |-> v, exc |-> NoExc]
Raise(e, d) == [ok |-> FALSE, val |-> d, exc |-> e]

\* one entry of a request's call log
Call(op, arg, out) == [op |-> op, arg |-> arg, out |-> out]

\* --------------------------------------------------- transcription service
Texts == {"I really enjoy traveling"}
NoText == ""

\* client.audio.transcriptions.create(model="whisper-1", file=audio)
TranscriptionOutcomes == {Ok(t) : t \in Texts} \cup {Raise(APIConnectionError, NoText)}

\* ------------------------------------------------------ evaluation service
None == <<>>
Keys == {"overall_score", "feedback", "weakness_search_query"}
Query == <<"p", "\n", "c">>
AllMembers ==
    << <<"overall_score", 70>>, <<"feedback", "good">>,
       <<"weakness_search_query", Query>> >>

\* message.content: text that is a JSON object with the listed members, or no
\* JSON at all
NoContent == [wellformed |-> FALSE, members |-> <<>>]
ContentOf(K) ==
    [wellformed |-> TRUE, members |-> SelectSeq(AllMembers, LAMBDA m : m[1] \in K)]
KeySets == {K \in SUBSET Keys : Cardinality(K) >= 2}
Contents == {NoContent} \cup {ContentOf(K) : K \in KeySets}

\* client.chat.completions.create(...)
ChatOutcomes == {Ok(c) : c \in Contents} \cup {Raise(APIConnectionError, NoContent)}

\* a dict with string keys out of Keys
EmptyDict ==
    [keys |-> {}, overall_score |-> 0, feedback |-> "", weakness_search_query |-> <<>>]
Last(members, k) ==
    LET I == {i \in 1..Len(members) : members[i][1] = k}
    IN  members[CHOOSE i \in I : \A j \in I : j <= i][2]
Has(members, k) == \E i \in 1..Len(members) : members[i][1] = k

\* json.loads(response.choices[0].message.content)
json_loads(content) ==
    IF ~content.wellformed
    THEN Raise(JSONDecodeError, EmptyDict)
    ELSE LET m == content.members
         IN  Ok([keys |-> {k \in Keys : Has(m, k)},
                 overall_score |->
                     IF Has(m, "overall_score") THEN Last(m, "overall_score") ELSE 0,
                 feedback |-> IF Has(m, "feedback") THEN Last(m, "feedback") ELSE "",
                 weakness_search_query |->
                     IF Has(m, "weakness_search_query")
                     THEN Last(m, "weakness_search_query") ELSE <<>>])

\* the chat call's failure swallowed and answered with a stock judgment
AnalyzeWithFallback(chat) ==
    IF chat.ok THEN json_loads(chat.val) ELSE json_loads(ContentOf(Keys))

\* analyze_audio_transcript(transcript): the outcomes of the chat call, parsed
analyze_audio_transcript(chat) ==
    IF chat.ok THEN json_loads(chat.val) ELSE Raise(chat.exc, EmptyDict)

\* ------------------------------------------------------- embedding service
\* text.replace("\n", " ")
Replace(text) == [i \in 1..Len(text) |-> IF text[i] = "\n" THEN " " ELSE text[i]]

\* the vector of a text: the service is a function of the text it is given
Embedding(text) == <<"vec">> \o text
NoVector == <<>>

\* client.embeddings.create(input=[text], ...).data[0].embedding
EmbeddingOutcomes(text) == {Ok(Embedding(text)), Raise(APIConnectionError, NoVector)}

\* an embedding kept from an earlier call and returned without a call
CachedEmbedding(text) == {[out |-> Ok(Embedding(Replace(text))), calls |-> <<>>]}

\* get_embedding(text): the set of its possible results, each with the
\* service call it made
get_embedding(text) ==
    {[out |-> o, calls |-> <<Call("embed", Replace(text), o)>>] :
        o \in EmbeddingOutcomes(Replace(text))}

\* ---------------------------------------------------------- index (Qdrant)
PayloadKeys == {"bubble_id", "name", "specialty"}

\* a payload: a dict, or None
Payload(K, i) ==
    [isnone |-> FALSE, keys |-> K, bubble_id |-> <<"bubble", i>>,
     name |-> <<"tutor", i>>, specialty |-> <<"specialty", i>>]
NonePayload ==
    [isnone |-> TRUE, keys |-> {}, bubble_id |-> None, name |-> None,
     specialty |-> None]
EmptyPayload ==
    [isnone |-> FALSE, keys |-> {}, bubble_id |-> None, name |-> None,
     specialty |-> None]

\* a hit: an object with the attributes payload and score (isobj), or a
\* mapping that may hold the key 'payload' (haspayload)
ScoredPoint(pl, sc) == [isobj |-> TRUE, haspayload |-> TRUE, payload |-> pl, score |-> sc]
MappingHit(has, pl, sc) ==
    [isobj |-> FALSE, haspayload |-> has, payload |-> pl, score |-> sc]

ScoreOf(i) == 100 - 5 * i

\* the i-th point of the collection, by descending score for the query
FullPoint(i) == ScoredPoint(Payload(PayloadKeys, i), ScoreOf(i))
FullCollection(n) == [i \in 1..n |-> FullPoint(i)]

\* collections with a legacy-ingested second point: a payload without the
\* name, and no payload at all
LegacyCollections ==
    { <<FullPoint(1), ScoredPoint(Payload(PayloadKeys \ {"name"}, 2), ScoreOf(2))>>,
      <<FullPoint(1), ScoredPoint(NonePayload, ScoreOf(2))>> }

\* what a legacy client answers with: mappings instead of objects
MappingCollection ==
    <<MappingHit(TRUE, Payload(PayloadKeys, 1), ScoreOf(1)),
      MappingHit(FALSE, EmptyPayload, ScoreOf(2))>>

\* the index client: None when the library is not installed, else an object
\* with the operations its version has
NoClient == [present |-> FALSE, ops |-> {}]
QdrantClient(ops) == [present |-> TRUE, ops |-> ops]
Clients == {NoClient} \cup {QdrantClient(o) : o \in SUBSET {"search", "search_points"}}
hasattr(q, op) == op \in q.ops

\* the collections a process may find
Collections ==
    {FullCollection(n) : n \in 0..MaxPoints} \cup LegacyCollections \cup {MappingCollection}

\* the deployments: the client the process imported and the collection it
\* finds (a process without a usable client never reads the collection)
Deployments ==
    {<<q, c>> \in Clients \X Collections :
        hasattr(q, "search") \/ hasattr(q, "search_points") \/ c = <<>>}

\* the deployments followed under concurrent requests
SharedDeployments ==
    { <<NoClient, <<>>>>,
      <<QdrantClient({"search"}), FullCollection(MaxPoints)>>,
      <<QdrantClient({"search_points"}), MappingCollection>> }

Min(a, b) == IF a <= b THEN a ELSE b

\* what an index query answers: the `limit` best points, or a failure
SearchOutcomes(points, limit) ==
    {Ok(SubSeq(points, 1, Min(limit, Len(points)))), Raise(ResponseError, <<>>)}

SearchArg(pname, vec, limit) ==
    [collection_name |-> COLLECTION_NAME, pname |-> pname, vec |-> vec, limit |-> limit]

\* the search called without probing the client
UnprobedSearch(q, points, query_vector, limit) ==
    IF hasattr(q, "search")
    THEN {[out |-> o,
           calls |-> <<Call("search", SearchArg("query_vector", query_vector, limit), o)>>] :
             o \in SearchOutcomes(points, limit)}
    ELSE {[out |-> Raise(AttributeError("object has no attribute 'search'"), <<>>),
           calls |-> <<>>]}

\* the search called without its limit
UnlimitedSearch(q, points, query_vector, limit) ==
    IF ~q.present \/ ~(hasattr(q, "search") \/ hasattr(q, "search_points"))
    THEN {[out |-> Ok(<<>>), calls |-> <<>>]}
    ELSE LET op == IF hasattr(q, "search") THEN "search" ELSE "search_points"
             pn == IF hasattr(q, "search") THEN "query_vector" ELSE "vector"
         IN  {[out |-> o,
               calls |-> <<Call(op, SearchArg(pn, query_vector, Len(points)), o)>>] :
                 o \in SearchOutcomes(points, Len(points))}

\* the probes in the other order: the legacy operation first
LegacyFirstSearch(q, points, query_vector, limit) ==
    IF ~q.present
    THEN {[out |-> Ok(<<>>), calls |-> <<>>]}
    ELSE IF hasattr(q, "search_points")
    THEN {[out |-> o,
           calls |-> <<Call("search_points", SearchArg("vector", query_vector, limit), o)>>] :
             o \in SearchOutcomes(points, limit)}
    ELSE IF hasattr(q, "search")
    THEN {[out |-> o,
           calls |-> <<Call("search", SearchArg("query_vector", query_vector, limit), o)>>] :
             o \in SearchOutcomes(points, limit)}
    ELSE {[out |-> Ok(<<>>), calls |-> <<>>]}

\* safe_qdrant_search(query_vector, limit): the set of its possible results,
\* each with the index calls it made
safe_qdrant_search(q, points, query_vector, limit) ==
    IF ~q.present
    THEN {[out |-> Ok(<<>>), calls |-> <<>>]}
    ELSE IF hasattr(q, "search")
    THEN {[out |-> o,
           calls |-> <<Call("search", SearchArg("query_vector", query_vector, limit), o)>>] :
             o \in SearchOutcomes(points, limit)}
    ELSE IF hasattr(q, "search_points")
    THEN {[out |-> o,
           calls |-> <<Call("search_points", SearchArg("vector", query_vector, limit), o)>>] :
             o \in SearchOutcomes(points, limit)}
    ELSE {[out |-> Ok(<<>>), calls |-> <<>>]}

\* payload.get(k)
PayloadGet(pl, k) ==
    IF k \notin pl.keys THEN None
    ELSE CASE k = "bubble_id" -> pl.bubble_id
           [] k = "name" -> pl.name
           [] OTHER -> pl.specialty

\* payload = hit.payload if hasattr(hit, 'payload') else hit.get('payload', {})
HitPayload(hit) ==
    IF hit.isobj THEN hit.payload
    ELSE IF hit.haspayload THEN hit.payload ELSE EmptyPayload

\* the exception one iteration of the loop raises, NoExc if none
HitExc(hit) ==
    IF HitPayload(hit).isnone THEN AttributeError("'NoneType' object has no attribute 'get'")
    ELSE IF ~hit.isobj THEN AttributeError("'dict' object has no attribute 'score'")
    ELSE NoExc

Entry(hit) ==
    [bubble_id |-> PayloadGet(HitPayload(hit), "bubble_id"),
     name |-> PayloadGet(HitPayload(hit), "name"),
     match_score |-> hit.score,
     specialty |-> PayloadGet(HitPayload(hit), "specialty")]

\* the loop inserting each entry at the front of the list
RecommendedTeachersReversed(search_result) ==
    LET n == Len(search_result)
        Bad == {i \in 1..n : HitExc(search_result[i]) # NoExc}
    IN  IF Bad = {}
        THEN Ok([i \in 1..n |-> Entry(search_result[n + 1 - i])])
        ELSE Raise(HitExc(search_result[CHOOSE i \in Bad : \A j \in Bad : i <= j]), <<>>)

\* the loop over search_result: the list of entries, or the exception of
\* the first hit that raises
RecommendedTeachers(search_result) ==
    LET Bad == {i \in 1..Len(search_result) : HitExc(search_result[i]) # NoExc}
    IN  IF Bad = {}
        THEN Ok([i \in 1..Len(search_result) |-> Entry(search_result[i])])
        ELSE Raise(HitExc(search_result[CHOOSE i \in Bad : \A j \in Bad : i <= j]), <<>>)

\* ---------------------------------------------------------------- response
NoBody ==
    [status |-> "", transcript |-> NoText, score |-> 0, feedback |-> "",
     recommendations |-> <<>>]

\* the dict assess_audio returns; ai_result[k] raises KeyError for a missing k
SuccessBody(transcript_text, ai, recommended) ==
    IF "overall_score" \notin ai.keys THEN Raise(KeyError("'overall_score'"), NoBody)
    ELSE IF "feedback" \notin ai.keys THEN Raise(KeyError("'feedback'"), NoBody)
    ELSE Ok([status |-> "success", transcript |-> transcript_text,
             score |-> ai.overall_score, feedback |-> ai.feedback,
             recommendations |-> recommended])

INSTALLED_VERSION(q) == IF q.present THEN "1.x" ELSE "NOT_INSTALLED"

\* what the handler hands to its caller
NoResult == [kind |-> "none", status_code |-> 0, detail |-> <<>>, body |-> NoBody]
Returned(body) == [kind |-> "return", status_code |-> 200, detail |-> <<>>, body |-> body]

\* HTTPException(status_code=500, detail=f"Server Error: {str(e)} | Installed Qdrant Ver: ...")
HTTPException(e, q) ==
    [kind |-> "raise", status_code |-> StatusCode,
     detail |-> <<"Server Error: ", e.msg, " | Installed Qdrant Ver: ", INSTALLED_VERSION(q)>>,
     body |-> NoBody]

\* -------------------------------------------------------------- file system
\* a fixed or clock-derived name instead: any name, taken or not
AnyName(files) == TempNames

\* tempfile.NamedTemporaryFile(delete=False, suffix=".mp3"): the names it may
\* create, each one a name no existing file has
NamedTemporaryFile(files) == {n \in TempNames : ~files[n].exists}

\* open(path, "wb") and shutil.copyfileobj(src, out)
CopyToFile(files, path, data) == [files EXCEPT ![path] = FileOf(data)]

\* the cleanup left out
RemoveNothing(files, path) == files

\* the cleanup removing every temporary file it finds
RemoveAll(files, path) == [n \in TempNames |-> NoFile]

\* if os.path.exists(path): os.remove(path)
RemoveIfExists(files, path) ==
    IF files[path].exists THEN [files EXCEPT ![path] = NoFile] ELSE files

\* urllib.request.urlopen(req): the body of the resource, or a failure
FetchOutcomes == {Ok(p) : p \in Payloads} \cup {Raise(URLError, <<>>)}

\* ------------------------------------------------------------------- state
VARIABLES
    fs,                    \* the temporary directory: name -> file
    qdrant,                \* the index client (module level, set at import)
    index,                 \* the points of the collection, best match first
    pc,                    \* where each request is in assess_audio
    file,                  \* assess_audio's parameter
    temp_file_path,
    transcript_text,
    ai_result,
    query_vector,
    search_result,
    recommended_teachers,
    exc,                   \* the exception being handled (e)
    raised_in,             \* the statement group that raised it
    result,                \* what assess_audio handed to its caller
    calls,                 \* the external calls of the request, in order
    removals,              \* how often the request's os.remove has run
    ADMIN_SECRET,          \* the admin secret (module level, set at import)
    admin                  \* the add_teacher request: its position and locals

locals ==
    <<file, temp_file_path, transcript_text, ai_result, query_vector, search_result,
      recommended_teachers, exc, raised_in, result, calls, removals>>
vars == <<fs, qdrant, index, ADMIN_SECRET, admin, pc, locals>>

\* ----------------------------------------------------------- admin endpoint
\* ADMIN_SECRET = os.getenv("ADMIN_SECRET", "123456")
DefaultSecret == "123456"
Secrets == {DefaultSecret, "s3cret"}

\* secret_key: str = Header(None): the header's value, or None without it
NoHeader == [given |-> FALSE, value |-> ""]
Header(v) == [given |-> TRUE, value |-> v]
SecretKeys == {NoHeader} \cup {Header(v) : v \in Secrets}

\* the form of the request
Names == {<<"tutor", 0>>}
BubbleIds == {<<"bubble", 0>>}
SpecialtyDescs == {<<"g", "\n", "r">>}

\* a check that only asks for the header to be there
AnyHeader(secret_key, secret) == secret_key.given

\* line 196 passes: not (secret_key != ADMIN_SECRET); None differs from
\* every string
Authorized(secret_key, secret) == secret_key.given /\ secret_key.value = secret

\* what add_teacher hands to its caller
AdminNoResult == [kind |-> "none", status_code |-> 0, status |-> "", exc |-> NoExc]
\* raise HTTPException(status_code=401)
Unauthorized == [kind |-> "raise", status_code |-> 401, status |-> "", exc |-> NoExc]
\* return {"status": "success"}
AdminReturned == [kind |-> "return", status_code |-> 200, status |-> "success", exc |-> NoExc]
\* add_teacher has no try: an exception leaves the handler as it is
Propagated(e) == [kind |-> "propagate", status_code |-> 0, status |-> "", exc |-> e]

NameError(n) == Exc("NameError", n)

\* PointStruct(id=..., vector=vector, payload={...}); the id is not modelled
PointStruct(vector, bubble_id, name, specialty) ==
    [vector |-> vector,
     payload |-> [isnone |-> FALSE, keys |-> PayloadKeys, bubble_id |-> bubble_id,
                  name |-> name, specialty |-> specialty]]

\* the stored point as a later search returns it, in the shape of the hits
\* of its collection
Stored(points, point, score) ==
    IF \A i \in 1..Len(points) : points[i].isobj
    THEN ScoredPoint(point.payload, score)
    ELSE MappingHit(TRUE, point.payload, score)

\* the collection with the point at rank k; its score lies between its
\* neighbours'
Inserted(points, point, k) ==
    LET score == IF k <= Len(points) THEN points[k].score
                 ELSE IF points = <<>> THEN ScoreOf(1)
                 ELSE points[Len(points)].score
    IN  SubSeq(points, 1, k - 1) \o <<Stored(points, point, score)>>
        \o SubSeq(points, k, Len(points))

\* qdrant.upsert(collection_name=COLLECTION_NAME, points=[point]): the
\* collections it may leave, each with the outcome of the call
UpsertOutcomes(points, point) ==
    {[out |-> Ok(TRUE), points |-> Inserted(points, point, k)] : k \in 1..Len(points) + 1}
    \cup {[out |-> Raise(ResponseError, FALSE), points |-> points]}

AdminIdle ==
    [pc |-> "idle", served |-> 0, secret_key |-> NoHeader, name |-> None,
     specialty_desc |-> None, bubble_id |-> None, vector |-> NoVector,
     result |-> AdminNoResult, calls |-> <<>>, index_before |-> <<>>]

\* the process after import, in one of the deployments D and with one of the
\* secrets S, no request yet
Started(D, S) ==
    /\ fs = [n \in TempNames |-> NoFile]
    /\ ADMIN_SECRET \in S
    /\ admin = AdminIdle
    /\ \E d \in D :
          /\ qdrant = d[1]
          /\ index = d[2]
    /\ pc = [r \in Reqs |-> "idle"]
    /\ file = [r \in Reqs |-> NoInput]
    /\ temp_file_path = [r \in Reqs |-> NoPath]
    /\ transcript_text = [r \in Reqs |-> NoText]
    /\ ai_result = [r \in Reqs |-> EmptyDict]
    /\ query_vector = [r \in Reqs |-> NoVector]
    /\ search_result = [r \in Reqs |-> <<>>]
    /\ recommended_teachers = [r \in Reqs |-> <<>>]
    /\ exc = [r \in Reqs |-> NoExc]
    /\ raised_in = [r \in Reqs |-> ""]
    /\ result = [r \in Reqs |-> NoResult]
    /\ calls = [r \in Reqs |-> <<>>]
    /\ removals = [r \in Reqs |-> 0]

\* control passes to the except clause with e bound
Raised(r, e, where) ==
    /\ exc' = [exc EXCEPT ![r] = e]
    /\ raised_in' = [raised_in EXCEPT ![r] = where]
    /\ pc' = [pc EXCEPT ![r] = "except"]

Goto(r, next) ==
    /\ pc' = [pc EXCEPT ![r] = next]
    /\ UNCHANGED <<exc, raised_in>>

Logged(r, entries) == calls' = [calls EXCEPT ![r] = @ \o entries]

\* lines 140-143: the request arrives and its temporary file is created
Start(r) ==
    /\ pc[r] = "idle"
    /\ \E f \in Inputs, n \in NamedTemporaryFile(fs) :
          /\ file' = [file EXCEPT ![r] = f]
          /\ temp_file_path' = [temp_file_path EXCEPT ![r] = n]
          /\ fs' = [fs EXCEPT ![n] = FileOf(<<>>)]
    /\ Goto(r, "copy")
    /\ UNCHANGED <<qdrant, index, ADMIN_SECRET, admin, removals, transcript_text, ai_result, query_vector,
                   search_result, recommended_teachers, result, calls>>

\* lines 146-152: the audio is fetched or copied into the temporary file
Acquire(r) ==
    /\ pc[r] = "copy"
    /\ IF file[r].isstr
       THEN \E o \in FetchOutcomes :
              /\ Logged(r, <<Call("urlopen", file[r].url, o)>>)
              /\ IF o.ok
                 THEN /\ fs' = CopyToFile(fs, temp_file_path[r], o.val)
                      /\ Goto(r, "transcribe")
                 ELSE /\ fs' = fs
                      /\ Raised(r, o.exc, "acquisition")
       ELSE /\ fs' = CopyToFile(fs, temp_file_path[r], file[r].data)
            /\ Goto(r, "transcribe")
            /\ UNCHANGED calls
    /\ UNCHANGED <<qdrant, index, ADMIN_SECRET, admin, removals, file, temp_file_path, transcript_text, ai_result,
                   query_vector, search_result, recommended_teachers, result>>

\* lines 155-157: the file is opened and sent to the transcription service
Transcribe(r) ==
    /\ pc[r] = "transcribe"
    /\ IF ~fs[temp_file_path[r]].exists
       THEN /\ Raised(r, FileNotFoundError, "transcription")
            /\ UNCHANGED <<transcript_text, calls>>
       ELSE \E o \in TranscriptionOutcomes :
              /\ Logged(r, <<Call("transcribe", fs[temp_file_path[r]].data, o)>>)
              /\ IF o.ok
                 THEN /\ transcript_text' = [transcript_text EXCEPT ![r] = o.val]
                      /\ Goto(r, "evaluate")
                 ELSE /\ Raised(r, o.exc, "transcription")
                      /\ UNCHANGED transcript_text
    /\ UNCHANGED <<fs, qdrant, index, ADMIN_SECRET, admin, removals, file, temp_file_path, ai_result, query_vector,
                   search_result, recommended_teachers, result>>

\* line 160: ai_result = analyze_audio_transcript(transcript_text)
Evaluate(r) ==
    /\ pc[r] = "evaluate"
    /\ \E c \in ChatOutcomes :
          LET o == analyze_audio_transcript(c)
          IN  /\ Logged(r, <<Call("chat", transcript_text[r], c)>>)
              /\ IF o.ok
                 THEN /\ ai_result' = [ai_result EXCEPT ![r] = o.val]
                      /\ Goto(r, "embed")
                 ELSE /\ Raised(r, o.exc, "evaluation")
                      /\ UNCHANGED ai_result
    /\ UNCHANGED <<fs, qdrant, index, ADMIN_SECRET, admin, removals, file, temp_file_path, transcript_text,
                   query_vector, search_result, recommended_teachers, result>>

\* line 163: query_vector = get_embedding(ai_result['weakness_search_query'])
Embed(r) ==
    /\ pc[r] = "embed"
    /\ IF "weakness_search_query" \notin ai_result[r].keys
       THEN /\ Raised(r, KeyError("'weakness_search_query'"), "embedding")
            /\ UNCHANGED <<query_vector, calls>>
       ELSE \E g \in get_embedding(ai_result[r].weakness_search_query) :
              /\ Logged(r, g.calls)
              /\ IF g.out.ok
                 THEN /\ query_vector' = [query_vector EXCEPT ![r] = g.out.val]
                      /\ Goto(r, "search")
                 ELSE /\ Raised(r, g.out.exc, "embedding")
                      /\ UNCHANGED query_vector
    /\ UNCHANGED <<fs, qdrant, index, ADMIN_SECRET, admin, removals, file, temp_file_path, transcript_text, ai_result,
                   search_result, recommended_teachers, result>>

\* lines 164-183: the index is searched, one entry is appended per hit and
\* the response is built and returned (the finally clause runs before the
\* caller gets it); the first statement that raises ends the sequence
Recommend(r) ==
    /\ pc[r] = "search"
    /\ \E s \in safe_qdrant_search(qdrant, index, query_vector[r], DefaultLimit) :
          LET found == IF s.out.ok THEN s.out.val ELSE <<>>
              rec == RecommendedTeachers(found)
              teachers == IF rec.ok THEN rec.val ELSE <<>>
              body == SuccessBody(transcript_text[r], ai_result[r], teachers)
          IN  /\ Logged(r, s.calls)
              /\ search_result' = [search_result EXCEPT ![r] = found]
              /\ recommended_teachers' = [recommended_teachers EXCEPT ![r] = teachers]
              /\ IF ~s.out.ok THEN
                     /\ Raised(r, s.out.exc, "search")
                     /\ UNCHANGED result
                 ELSE IF ~rec.ok THEN
                     /\ Raised(r, rec.exc, "extraction")
                     /\ UNCHANGED result
                 ELSE IF ~body.ok THEN
                     /\ Raised(r, body.exc, "assembly")
                     /\ UNCHANGED result
                 ELSE
                     /\ result' = [result EXCEPT ![r] = Returned(body.val)]
                     /\ Goto(r, "finally")
    /\ UNCHANGED <<fs, qdrant, index, ADMIN_SECRET, admin, removals, file, temp_file_path, transcript_text, ai_result,
                   query_vector>>

\* lines 185-188: any Exception becomes an HTTPException
Except(r) ==
    /\ pc[r] = "except"
    /\ result' = [result EXCEPT ![r] = HTTPException(exc[r], qdrant)]
    /\ Goto(r, "finally")
    /\ UNCHANGED <<fs, qdrant, index, ADMIN_SECRET, admin, removals, file, temp_file_path, transcript_text, ai_result,
                   query_vector, search_result, recommended_teachers, calls>>

\* lines 189-191: the temporary file is removed; the caller gets the result
Finally(r) ==
    /\ pc[r] = "finally"
    /\ fs' = RemoveIfExists(fs, temp_file_path[r])
    /\ removals' = [removals EXCEPT ![r] =
           IF fs[temp_file_path[r]].exists /\ ~fs'[temp_file_path[r]].exists
           THEN @ + 1 ELSE @]
    /\ Goto(r, "done")
    /\ UNCHANGED <<qdrant, index, ADMIN_SECRET, admin, file, temp_file_path, transcript_text, ai_result,
                   query_vector, search_result, recommended_teachers, result, calls>>

\* one step of request r
Step(r) ==
    \/ Start(r)
    \/ Acquire(r)
    \/ Transcribe(r)
    \/ Evaluate(r)
    \/ Embed(r)
    \/ Recommend(r)
    \/ Except(r)
    \/ Finally(r)

\* concurrent requests (several workers over one temporary directory)
Init == Started(SharedDeployments, {DefaultSecret})
Next == \E r \in Reqs : Step(r)
Spec == Init /\ [][Next]_vars

\* one request, in every deployment
InitSingle == Started(Deployments, {DefaultSecret})
NextSingle == Step("r1")
SpecSingle == InitSingle /\ [][NextSingle]_vars

\* line 195: the request arrives with its form and header
AddTeacher ==
    /\ admin.pc \in {"idle", "done"}
    /\ admin.served < MaxRequests
    /\ \E k \in SecretKeys, n \in Names, d \in SpecialtyDescs, b \in BubbleIds :
          admin' = [AdminIdle EXCEPT !.pc = "auth", !.served = admin.served + 1,
                                     !.secret_key = k, !.name = n,
                                     !.specialty_desc = d, !.bubble_id = b,
                                     !.index_before = index]
    /\ UNCHANGED <<fs, qdrant, index, ADMIN_SECRET, pc, locals>>

\* line 196
Authorize ==
    /\ admin.pc = "auth"
    /\ IF Authorized(admin.secret_key, ADMIN_SECRET)
       THEN admin' = [admin EXCEPT !.pc = "embed"]
       ELSE admin' = [admin EXCEPT !.pc = "done", !.result = Unauthorized]
    /\ UNCHANGED <<fs, qdrant, index, ADMIN_SECRET, pc, locals>>

\* line 197
AdminEmbed ==
    /\ admin.pc = "embed"
    /\ \E g \in get_embedding(admin.specialty_desc) :
          IF g.out.ok
          THEN admin' = [admin EXCEPT !.pc = "upsert", !.vector = g.out.val,
                                      !.calls = @ \o g.calls]
          ELSE admin' = [admin EXCEPT !.pc = "done", !.calls = @ \o g.calls,
                                      !.result = Propagated(g.out.exc)]
    /\ UNCHANGED <<fs, qdrant, index, ADMIN_SECRET, pc, locals>>

\* lines 198-200; without the library PointStruct is not defined
Upsert ==
    /\ admin.pc = "upsert"
    /\ IF ~qdrant.present
       THEN /\ admin' = [admin EXCEPT !.pc = "done",
                                      !.result = Propagated(NameError("PointStruct"))]
            /\ UNCHANGED index
       ELSE LET point == PointStruct(admin.vector, admin.bubble_id, admin.name,
                                     admin.specialty_desc)
            IN  \E u \in UpsertOutcomes(index, point) :
                   /\ index' = u.points
                   /\ admin' = [admin EXCEPT
                         !.pc = "done",
                         !.calls = @ \o <<Call("upsert", point, u.out)>>,
                         !.result = IF u.out.ok THEN AdminReturned
                                    ELSE Propagated(u.out.exc)]
    /\ UNCHANGED <<fs, qdrant, ADMIN_SECRET, pc, locals>>

\* the admin requests, one after the other, in every deployment and with
\* either secret
InitAdmin == Started(Deployments, Secrets)
NextAdmin == AddTeacher \/ Authorize \/ AdminEmbed \/ Upsert
SpecAdmin == InitAdmin /\ [][NextAdmin]_vars

\* ---------------------------------------------------------------- claims
\* r is in flight, and holds its temporary file: from the creation of the
\* file to the cleanup
InFlight(r) == pc[r] \notin {"idle", "done"}
Done(r) == pc[r] = "done"
Failed(r) == Done(r) /\ result[r].kind = "raise"
Succeeded(r) == Done(r) /\ result[r].kind = "return"

CallsOf(r, ops) == SelectSeq(calls[r], LAMBDA c : c.op \in ops)
Called(r, ops) == CallsOf(r, ops) # <<>>
Answered(r, ops) == Called(r, ops) /\ CallsOf(r, ops)[1].out.ok
AnswerOf(r, ops) == CallsOf(r, ops)[1].out.val

IndexOps == {"search", "search_points"}

\* C1: once assess_audio has returned or raised, whichever stage succeeded
\* or raised, the temporary file of the request no longer exists: in the
\* state in which a request hands its result to the caller there is no file
\* of its temp_file_path.
C1_TempFileGoneOnExit ==
    [][\A r \in Reqs :
          (pc[r] # "done" /\ pc'[r] = "done") => ~fs'[temp_file_path[r]].exists]_vars

\* a request has failed in the hit loop, another before its file was
\* written, and neither temporary file is left
C1_Witness ==
    /\ Failed("r1") /\ raised_in["r1"] = "extraction"
    /\ Failed("r2") /\ raised_in["r2"] = "acquisition"
    /\ \A n \in TempNames : ~fs[n].exists

\* acquisition, transcription and evaluation have succeeded for r and the
\* evaluation holds the three fields
EvaluatedInFull(r) ==
    /\ Answered(r, {"transcribe"})
    /\ Answered(r, {"chat"})
    /\ ai_result[r].keys = Keys

\* C2: when acquisition, transcription and evaluation have succeeded, an
\* exception of the recommendation stage (embedding, index search, hit
\* extraction) is absorbed: the request returns success with the transcript,
\* the score and the feedback, and never ends in failure.
C2_RecommendationAbsorbed ==
    \A r \in Reqs :
        (Done(r) /\ EvaluatedInFull(r)) =>
            /\ result[r].kind = "return"
            /\ result[r].body.transcript = AnswerOf(r, {"transcribe"})
            /\ result[r].body.score = ai_result[r].overall_score
            /\ result[r].body.feedback = ai_result[r].feedback

InvalidJson(r) ==
    Answered(r, {"chat"}) /\ ~AnswerOf(r, {"chat"}).wellformed

\* the kind an HTTPException carries besides its message
ErrorKind(res) == res.status_code

\* C3: when the evaluation service returns output that is not valid JSON,
\* the request fails with an error of the kind of parse failures, a kind no
\* failure of another cause is reported with, and neither the embedding
\* service nor the index search is invoked.
C3_ParseErrorKind ==
    \A r \in Reqs :
        (Done(r) /\ InvalidJson(r)) =>
            /\ result[r].kind = "raise"
            /\ ~Called(r, {"embed"} \cup IndexOps)
            /\ \A o \in Reqs :
                  (Failed(o) /\ ~InvalidJson(o)) =>
                      ErrorKind(result[o]) # ErrorKind(result[r])

NoUsableOperation == ~hasattr(qdrant, "search") /\ ~hasattr(qdrant, "search_points")

\* C4: with the index client absent or without 'search' and 'search_points',
\* a request whose earlier stages succeeded (the embedding was computed, the
\* evaluation holds score and feedback) returns success with an empty
\* recommendations list and with the transcript the transcription service
\* gave and the score and feedback of the evaluation service's answer.
C4_NoUsableOperationDegrades ==
    \A r \in Reqs :
        ( /\ NoUsableOperation
          /\ Answered(r, {"embed"})
          /\ pc[r] # "search"
          /\ {"overall_score", "feedback"} \subseteq ai_result[r].keys ) =>
            /\ result[r].kind = "return"
            /\ result[r].body.status = "success"
            /\ result[r].body.recommendations = <<>>
            /\ result[r].body.transcript = AnswerOf(r, {"transcribe"})
            /\ result[r].body.score = Last(AnswerOf(r, {"chat"}).members, "overall_score")
            /\ result[r].body.feedback = Last(AnswerOf(r, {"chat"}).members, "feedback")
            /\ ~Called(r, IndexOps)

\* a request has returned from a process whose client has no operation
C4_Witness ==
    /\ qdrant.present /\ NoUsableOperation
    /\ Succeeded("r1")
    /\ result["r1"].body.recommendations = <<>>
    /\ result["r1"].body.score = 70

\* the request's local audio has zero bytes: an empty upload, or a fetched
\* body of no bytes
AcquiredEmpty(r) ==
    /\ pc[r] \notin {"idle", "copy"}
    /\ IF file[r].isstr
       THEN Answered(r, {"urlopen"}) /\ AnswerOf(r, {"urlopen"}) = <<>>
       ELSE file[r].data = <<>>

\* C5: when the acquired audio has zero bytes, for an upload and for a
\* remote locator alike, the request fails at the acquisition stage and the
\* transcription service is never invoked.
C5_EmptyPayloadRejected ==
    \A r \in Reqs :
        AcquiredEmpty(r) =>
            /\ ~Called(r, {"transcribe"})
            /\ Done(r) => (result[r].kind = "raise" /\ raised_in[r] = "acquisition")

FatalStages == {"acquisition", "transcription", "evaluation"}

\* C6: a failure of acquisition, transcription or evaluation fails the
\* request, and the errors of two different stages are never reported
\* alike: two requests that failed in different stages hand different
\* errors to their callers.
C6_StageDistinguishable ==
    \A r \in Reqs :
        (Done(r) /\ raised_in[r] \in FatalStages) =>
            /\ result[r].kind = "raise"
            /\ \A o \in Reqs :
                  (Done(o) /\ raised_in[o] \in FatalStages /\ raised_in[o] # raised_in[r]) =>
                      result[o] # result[r]

\* the hits the index returned to r (none when no index operation ran)
HitsReturned(r) == IF Answered(r, IndexOps) THEN AnswerOf(r, IndexOps) ELSE <<>>

\* field k of a hit's payload, None when the payload does not hold it
FieldOfHit(hit, k) ==
    IF k \in hit.payload.keys
    THEN CASE k = "bubble_id" -> hit.payload.bubble_id
           [] k = "name" -> hit.payload.name
           [] OTHER -> hit.payload.specialty
    ELSE None

\* C7: a success response holds one recommendation per hit the index
\* returned, in the order of the hits, and the i-th entry carries the tutor
\* id, name and specialty of the i-th hit's payload and the i-th hit's score.
C7_EntriesFollowHits ==
    \A r \in Reqs :
        result[r].kind = "return" =>
            LET recs == result[r].body.recommendations
                hits == HitsReturned(r)
            IN  /\ Len(recs) = Len(hits)
                /\ \A i \in 1..Len(hits) :
                      /\ recs[i].bubble_id = FieldOfHit(hits[i], "bubble_id")
                      /\ recs[i].name = FieldOfHit(hits[i], "name")
                      /\ recs[i].specialty = FieldOfHit(hits[i], "specialty")
                      /\ recs[i].match_score = hits[i].score

\* a request has returned three entries with descending scores
C7_Witness ==
    /\ Succeeded("r1")
    /\ Len(result["r1"].body.recommendations) = 3
    /\ result["r1"].body.recommendations[1].match_score
          > result["r1"].body.recommendations[3].match_score
    /\ result["r1"].body.recommendations[2].name = <<"tutor", 2>>

SameAnswers(r, o) ==
    \A i \in 1..Len(calls[r]), j \in 1..Len(calls[o]) :
        (calls[r][i].op = calls[o][j].op /\ calls[r][i].arg = calls[o][j].arg)
            => calls[r][i].out = calls[o][j].out

\* C9: two requests with the same input, served by collaborators that
\* answer equal calls equally, get the same response, in whatever order the
\* two interleave.
C9_SameInputSameResponse ==
    \A r, o \in Reqs :
        (Done(r) /\ Done(o) /\ file[r] = file[o] /\ SameAnswers(r, o))
            => result[r] = result[o]

\* two requests with the same upload have both returned a response
C9_Witness ==
    /\ Succeeded("r1") /\ Succeeded("r2")
    /\ file["r1"] = file["r2"]
    /\ ~file["r1"].isstr
    /\ SameAnswers("r1", "r2")
    /\ Len(result["r1"].body.recommendations) = 3

\* C10: no two requests in flight hold the same temporary file name, and
\* no cleanup removes the file of a request still in flight: the file of a
\* request in flight exists.
C10_OwnFileOnly ==
    \A r \in Reqs :
        InFlight(r) =>
            /\ fs[temp_file_path[r]].exists
            /\ \A o \in Reqs \ {r} : InFlight(o) => temp_file_path[o] # temp_file_path[r]

\* a request has cleaned up while the other was about to be transcribed
C10_Witness ==
    /\ Done("r1")
    /\ pc["r2"] = "transcribe"
    /\ Called("r1", {"transcribe"})
    /\ temp_file_path["r1"] # temp_file_path["r2"]

\* r has left the statement that calls safe_qdrant_search
Searched(r) == Answered(r, {"embed"}) /\ pc[r] # "search"

\* C11: safe_qdrant_search probes in a fixed order and calls the index at
\* most once: 'search' with query_vector whenever the client has it,
\* 'search_points' with the vector under the name 'vector' only when
\* 'search' is absent and 'search_points' present, and with no client or
\* neither operation it returns an empty sequence without a call and
\* without raising.
C11_ProbeOrder ==
    \A r \in Reqs :
        Searched(r) =>
            LET made == CallsOf(r, IndexOps)
                Arg(pname) == SearchArg(pname, query_vector[r], 3)
            IN  /\ Len(made) <= 1
                /\ hasattr(qdrant, "search") =>
                      (Len(made) = 1 /\ made[1].op = "search"
                        /\ made[1].arg = Arg("query_vector"))
                /\ (~hasattr(qdrant, "search") /\ hasattr(qdrant, "search_points")) =>
                      (Len(made) = 1 /\ made[1].op = "search_points"
                        /\ made[1].arg = Arg("vector"))
                /\ NoUsableOperation =>
                      (made = <<>> /\ search_result[r] = <<>> /\ raised_in[r] # "search")

\* a client with both operations has been asked through 'search'
C11_Witness ==
    /\ hasattr(qdrant, "search") /\ hasattr(qdrant, "search_points")
    /\ Searched("r1")
    /\ Len(CallsOf("r1", {"search"})) = 1
    /\ ~Called("r1", {"search_points"})

\* C12: when the 'search' operation is present and its call fails, the
\* legacy 'search_points' operation is attempted next, and when every
\* attempted operation fails the search yields an empty result instead of
\* raising.
C12_FallbackOnFailure ==
    \A r \in Reqs :
        (Searched(r) /\ Called(r, {"search"}) /\ ~Answered(r, {"search"})) =>
            /\ hasattr(qdrant, "search_points") => Called(r, {"search_points"})
            /\ raised_in[r] # "search"

\* the position of a service in the pipeline
Rank(op) ==
    CASE op = "urlopen" -> 1
      [] op = "transcribe" -> 2
      [] op = "chat" -> 3
      [] op = "embed" -> 4
      [] OTHER -> 5

\* the stage of the call has completed with success
StageOk(c) == c.out.ok /\ (c.op = "chat" => c.out.val.wellformed)

\* C13: the stages of a request run in the order acquisition,
\* transcription, evaluation, recommendation, assembly, and a stage is
\* invoked only after every earlier stage has succeeded: the calls of a
\* request are in pipeline order, every call but the last has succeeded, no
\* stage is skipped, and a response is assembled only after all of them.
C13_StageOrder ==
    \A r \in Reqs :
        LET n == Len(calls[r])
        IN  /\ \A i, j \in 1..n :
                  i < j => (Rank(calls[r][i].op) < Rank(calls[r][j].op) /\ StageOk(calls[r][i]))
            /\ Called(r, {"urlopen"}) => file[r].isstr
            /\ Called(r, {"transcribe"}) => (file[r].isstr => Answered(r, {"urlopen"}))
            /\ Called(r, {"chat"}) => Answered(r, {"transcribe"})
            /\ Called(r, {"embed"}) => Answered(r, {"chat"})
            /\ Called(r, IndexOps) => Answered(r, {"embed"})
            /\ result[r].kind = "return" =>
                  (Answered(r, {"embed"}) /\ \A i \in 1..n : StageOk(calls[r][i]))

\* a request for a remote locator has gone through the five services
C13_Witness ==
    /\ Succeeded("r1")
    /\ Len(calls["r1"]) = 5
    /\ calls["r1"][1].op = "urlopen"
    /\ calls["r1"][5].op = "search"

\* C14: on the success path the temporary file exists during the whole
\* transcription call and is released after it and before the response
\* reaches the caller: the transcription step starts and ends with the
\* file in place, and the step that hands a response over removes it.
C14_ReleaseAfterTranscription ==
    [][\A r \in Reqs :
          /\ (pc[r] = "transcribe" /\ pc'[r] = "evaluate") =>
                (fs[temp_file_path[r]].exists /\ fs'[temp_file_path[r]].exists)
          /\ (pc[r] # "done" /\ pc'[r] = "done" /\ result'[r].kind = "return") =>
                /\ Answered(r, {"transcribe"})
                /\ fs[temp_file_path[r]].exists
                /\ ~fs'[temp_file_path[r]].exists]_vars

\* a response has been handed over and its file released while the other
\* request, transcribed, still holds its own file
C14_Witness ==
    /\ Succeeded("r1")
    /\ ~fs[temp_file_path["r1"]].exists
    /\ pc["r2"] = "evaluate"
    /\ fs[temp_file_path["r2"]].exists

\* C15: for every request, on the success path and on every failure path,
\* the removal of its temporary file is performed exactly once: once when
\* the request has ended, and not before.
C15_RemovedExactlyOnce ==
    \A r \in Reqs :
        removals[r] = IF Done(r) THEN 1 ELSE 0

\* a failed and a succeeded request have each removed their file once
C15_Witness ==
    /\ Failed("r1") /\ raised_in["r1"] = "transcription"
    /\ Succeeded("r2")
    /\ removals["r1"] = 1 /\ removals["r2"] = 1

\* the index has answered r with hits
Hits(r) == IF Searched(r) /\ Answered(r, IndexOps) THEN AnswerOf(r, IndexOps) ELSE <<>>

\* C16: when the metadata of a returned hit lacks the tutor id, the name or
\* the specialty, or is missing altogether, the request does not fail for
\* it: no hit object makes the hit loop raise.
C16_IncompleteMetadataTolerated ==
    \A r \in Reqs :
        (\A i \in 1..Len(Hits(r)) : Hits(r)[i].isobj) => raised_in[r] # "extraction"

\* the evaluation service has answered r with a JSON object
ParsedEvaluation(r) ==
    /\ Answered(r, {"chat"})
    /\ AnswerOf(r, {"chat"}).wellformed
    /\ pc[r] # "evaluate"

\* C17: when the evaluation service returns valid JSON without one of
\* overall_score, feedback and weakness_search_query, a default stands in
\* for the field and the pipeline goes on to the recommendation stage: no
\* request fails for the missing key, and the embedding is asked for.
C17_DefaultsForMissingFields ==
    \A r \in Reqs :
        ParsedEvaluation(r) =>
            /\ exc[r].type # "KeyError"
            /\ pc[r] # "embed" => Called(r, {"embed"})

\* the evaluation of r has succeeded and holds the weakness query
EvaluatedWithQuery(r) ==
    ParsedEvaluation(r) /\ Has(AnswerOf(r, {"chat"}).members, "weakness_search_query")

\* C18: whenever the evaluation has succeeded, the embedding service is
\* invoked exactly once and before any probe of the index client, also
\* with no client or no search operation, where a failure of the embedding
\* still fails the request.
C18_EmbeddingBeforeProbe ==
    \A r \in Reqs :
        /\ pc[r] = "search" => Answered(r, {"embed"})
        /\ Called(r, IndexOps) => Answered(r, {"embed"})
        /\ (EvaluatedWithQuery(r) /\ pc[r] # "embed") =>
              /\ Len(CallsOf(r, {"embed"})) = 1
              /\ ~Answered(r, {"embed"}) =>
                    /\ ~Called(r, IndexOps)
                    /\ raised_in[r] = "embedding"
                    /\ Done(r) => result[r].kind = "raise"

\* a request has failed for its embedding in a process without a client
C18_Witness ==
    /\ ~qdrant.present
    /\ Failed("r1")
    /\ EvaluatedWithQuery("r1")
    /\ Called("r1", {"embed"}) /\ ~Answered("r1", {"embed"})

\* C19: the hit loop accepts both shapes of a hit, the object with a
\* payload attribute and the mapping with or without a 'payload' key: hits
\* whose payload is not None never make the loop raise.
C19_BothHitShapes ==
    \A r \in Reqs :
        (\A i \in 1..Len(Hits(r)) : ~HitPayload(Hits(r)[i]).isnone)
            => raised_in[r] # "extraction"

\* the secret of the admin request is the configured one
SecretMatches == admin.secret_key.given /\ admin.secret_key.value = ADMIN_SECRET
AdminCalled(op) == \E i \in 1..Len(admin.calls) : admin.calls[i].op = op
Upserted ==
    \E i \in 1..Len(admin.calls) : admin.calls[i].op = "upsert" /\ admin.calls[i].out.ok

\* C20: add_teacher with a secret_key that differs from ADMIN_SECRET, a
\* missing header included, is rejected with status 401 before any side
\* effect: the embedding service is not called and no point is upserted, so
\* the index is as the request found it; the index changes only after a
\* matching secret, by an upsert that succeeded.
C20_RejectedBeforeSideEffects ==
    /\ (admin.pc \notin {"idle", "auth"} /\ ~SecretMatches) =>
          /\ admin.pc = "done"
          /\ admin.result = Unauthorized
          /\ Len(admin.calls) = 0
          /\ index = admin.index_before
    /\ admin.result.status_code = 401 => ~SecretMatches
    /\ (admin.pc # "idle" /\ index # admin.index_before) => SecretMatches /\ Upserted
    /\ (AdminCalled("embed") \/ AdminCalled("upsert")) => SecretMatches

\* a request without the header is rejected after an earlier request, with
\* the secret, has added a point to a full collection
C20_Witness ==
    /\ admin.pc = "done" /\ ~admin.secret_key.given
    /\ admin.result = Unauthorized
    /\ Len(index) = MaxPoints + 1

====
